---- MODULE Spec2Model ----
(***************************************************************************)
(* ChocoCrunch Analytics: two Streamlit front ends over one dataset.       *)
(*   front end 1 (src/app.py:1-380)    a script over a pre-built SQLite    *)
(*                                     file, one query per run             *)
(*   front end 2 (src/app.py:383-1319) main(): CSV -> in-memory SQLite,    *)
(*                                     one page of query tabs per run      *)
(* Units: energy in kcal, sugars / carbohydrates / fat / sodium in tenths  *)
(* of a gram, so the 22.5 g threshold is the integer 225.  A ratio is an   *)
(* exact fraction <<num, den>> in lowest terms; den = 0 is SQL NULL.        *)
(***************************************************************************)
EXTENDS Integers, Sequences, FiniteSets, TLC

VARIABLES
    frontend,    \* 1: script over database/chococrunch.db, 2: main() over the CSV
    dataset,     \* rows of the data source, in input order
    sourceOk,    \* the database file exists / the CSV can be read
    pc,          \* position of the current script run
    page,        \* sidebar selection of the run (query option or section)
    tab,         \* index of the next tab of the page to render
    thread,      \* thread executing the current script run
    dataCache,   \* st.cache_data entry of load_data
    connCache,   \* st.cache_resource entry of create_sqlite_db
    conn,        \* the SQLite connection: its state and the thread that opened it
    store,       \* the tables of the database the connection is on
    loadCalls,   \* executions of the body of load_data
    createCalls, \* executions of the body of create_sqlite_db
    stmts,       \* kinds of SQL statement issued on the connection so far
    lastQ,       \* id of the query executed last in this run
    result,      \* DataFrame the last query produced
    out,         \* what the run has displayed
    runs         \* script runs completed

vars == <<frontend, dataset, sourceOk, pc, page, tab, thread, dataCache,
          connCache, conn, store, loadCalls, createCalls, stmts, lastQ, result, out, runs>>

(***************************************************************************)
(* Bounds of the model.                                                    *)
(***************************************************************************)
MaxRows == 6
MaxRuns == 2
MaxBrands == 16
Threads == {"T1", "T2"}

(***************************************************************************)
(* Values.                                                                 *)
(***************************************************************************)
NULL == -999                 \* SQL NULL / pandas NaN in a numeric or key column
EmptyBrand == 0              \* the empty string in the brand column
Malformed == -998            \* a non-numeric text in a numeric column of the CSV
NullRatio == <<0, 0>>        \* NULL in sugar_to_carb_ratio

RECURSIVE Gcd(_, _)
Gcd(a, b) == IF b = 0 THEN a ELSE Gcd(b, a % b)

\* the fraction n/d in lowest terms (d > 0, n >= 0)
Frac(n, d) == LET g == Gcd(n, d) IN <<n \div g, d \div g>>

IsNullRatio(r) == r[2] = 0
RatioLess(a, b) == a[1] * b[2] < b[1] * a[2]   \* both defined
RatioGreaterThan(r, n, d) == ~IsNullRatio(r) /\ r[1] * d > n * r[2]

(***************************************************************************)
(* Derived-metrics rules.  app.py does not compute these columns: both     *)
(* front ends read them ready-made (from the database file and from the    *)
(* cleaned CSV).  They follow section 4.1 of the specification.            *)
(***************************************************************************)
CalorieModerateFrom == 300
CalorieHighFrom == 500
SugarModerateFrom == 50
SugarHighFrom == 225

\* variant: the boundaries fall to the lower tier
calorie_category_inclusive(energy_kcal) ==
    IF energy_kcal = NULL THEN "Unknown"
    ELSE IF energy_kcal <= CalorieModerateFrom THEN "Low Calorie"
    ELSE IF energy_kcal <= CalorieHighFrom THEN "Moderate Calorie"
    ELSE "High Calorie"

calorie_category(energy_kcal) ==
    IF energy_kcal = NULL THEN "Unknown"
    ELSE IF energy_kcal < CalorieModerateFrom THEN "Low Calorie"
    ELSE IF energy_kcal < CalorieHighFrom THEN "Moderate Calorie"
    ELSE "High Calorie"

\* variant: the boundaries fall to the lower tier
sugar_category_inclusive(sugars) ==
    IF sugars = NULL THEN "Unknown"
    ELSE IF sugars <= SugarModerateFrom THEN "Low Sugar"
    ELSE IF sugars <= SugarHighFrom THEN "Moderate Sugar"
    ELSE "High Sugar"

sugar_category(sugars) ==
    IF sugars = NULL THEN "Unknown"
    ELSE IF sugars < SugarModerateFrom THEN "Low Sugar"
    ELSE IF sugars < SugarHighFrom THEN "Moderate Sugar"
    ELSE "High Sugar"

\* variant: NOVA group 3 is flagged too
is_ultra_processed_from3(nova_group) == IF nova_group >= 3 THEN "Yes" ELSE "No"

is_ultra_processed(nova_group) == IF nova_group = 4 THEN "Yes" ELSE "No"

\* variant: an undefined ratio is stored as 0
sugar_to_carb_ratio_zero(sugars, carbohydrates) ==
    IF carbohydrates = NULL \/ carbohydrates <= 0 THEN <<0, 1>>
    ELSE Frac(IF sugars = NULL THEN 0 ELSE sugars, carbohydrates)

sugar_to_carb_ratio(sugars, carbohydrates) ==
    IF carbohydrates = NULL \/ carbohydrates <= 0 THEN NullRatio
    ELSE Frac(IF sugars = NULL THEN 0 ELSE sugars, carbohydrates)

\* one row of the cleaned dataset: the raw record plus its derived columns
compute_derived(raw) ==
    [code |-> raw.code, name |-> raw.name, brand |-> raw.brand,
     energy |-> raw.energy, sugars |-> raw.sugars, carbs |-> raw.carbs,
     fat |-> raw.fat, sodium |-> raw.sodium, nova |-> raw.nova, fvn |-> raw.fvn,
     proteins |-> raw.proteins,
     ratio |-> sugar_to_carb_ratio(raw.sugars, raw.carbs),
     calorie_category |-> calorie_category(raw.energy),
     sugar_category |-> sugar_category(raw.sugars),
     is_ultra_processed |-> is_ultra_processed(raw.nova)]

(***************************************************************************)
(* Datasets.  A raw record is what the data source holds for one product;  *)
(* the cleaned dataset adds the derived columns.                           *)
(***************************************************************************)
Raw(code, name, brand, energy, sugars, carbs, fat, sodium, nova, fvn) ==
    [code |-> code, name |-> name, brand |-> brand, energy |-> energy,
     sugars |-> sugars, carbs |-> carbs, fat |-> fat, sodium |-> sodium,
     nova |-> nova, fvn |-> fvn,
     proteins |-> IF energy = NULL THEN NULL ELSE 60]

\* threshold neighbourhoods of every derived rule
EnergyValues == {NULL, 299, 300, 499, 500}
SugarValues == {NULL, 49, 50, 224, 225}
CarbValues == {NULL, 0, 100}
NovaValues == {NULL, 3, 4}

SingleRowDatasets ==
    { << compute_derived(Raw(3, 1, 1, e, s, c, 250, 5, n, 0)) >> :
        <<e, s, c, n>> \in EnergyValues \X SugarValues \X CarbValues \X NovaValues }

\* product kinds for datasets of several rows; the code is the row's position
Proto(k, code) ==
    CASE k = 1 -> Raw(code, 1, 1, 520, 300, 500, 300, 2, 4, 0)        \* ratio 3/5
      [] k = 2 -> Raw(code, NULL, 1, 250, 20, 0, 100, 12, 2, 10)      \* no ratio
      [] k = 3 -> Raw(code, 1, 2, 550, 400, 300, 150, 4, 4, 0)        \* ratio 4/3
      [] k = 4 -> Raw(code, NULL, NULL, NULL, NULL, NULL, NULL, NULL, NULL, NULL)
      [] OTHER -> Raw(code, 1, 2, 500, 240, 300, 210, 0, 3, 5)        \* ratio 4/5
ProtoKinds == 1..5

MultiRowDatasets ==
    UNION { { [i \in 1..n |-> compute_derived(Proto(f[i], i))] :
                f \in { g \in [1..n -> ProtoKinds] :
                           \A i \in 1..(n-1) : g[i] <= g[i+1] } } :
            n \in 2..MaxRows }

Datasets == SingleRowDatasets \cup MultiRowDatasets

\* a CSV in which one product_code occurs in several rows: rows 1 and 2, or
\* rows 1 and 3 with another product between them
DuplicateKeyDatasets ==
    { << compute_derived(Proto(a, 1)), compute_derived(Proto(b, 1)) >> :
        a \in ProtoKinds, b \in ProtoKinds }
    \cup { << compute_derived(Proto(a, 1)), compute_derived(Proto(5, 2)),
              compute_derived(Proto(b, 1)) >> : a \in ProtoKinds, b \in ProtoKinds }

\* a CSV in which the proteins_value of one row is not a number
MalformedDatasets ==
    { [i \in 1..3 |->
        compute_derived(IF i = bad THEN [Proto(k, i) EXCEPT !.proteins = Malformed]
                        ELSE Proto(IF i = 1 THEN 4 ELSE i, i))] :
        bad \in 1..3, k \in {1, 4} }

\* many brands of one product each, every product High Calorie, High Sugar and
\* ultra-processed
BrandedRow(i) == compute_derived([Proto(1, i) EXCEPT !.brand = i])
ManyBrandDatasets == { [i \in 1..n |-> BrandedRow(i)] : n \in (MaxBrands - 1)..MaxBrands }

\* the contents the database file of the first front end may have
DbDatasets == Datasets \cup ManyBrandDatasets

\* the files the second front end may find
CsvDatasets == DbDatasets \cup DuplicateKeyDatasets \cup MalformedDatasets

(***************************************************************************)
(* Tables and data frames: the column names and the rows.                  *)
(***************************************************************************)
Table(cols, rows) == [cols |-> cols, rows |-> rows]
EmptyFrame == Table({}, << >>)                       \* pd.DataFrame()
NoStore == [t \in {} |-> EmptyFrame]                 \* a database without tables

ProductRow(r) == [code |-> r.code, name |-> r.name, brand |-> r.brand]
NutrientRow(r) ==
    [code |-> r.code, energy |-> r.energy, sugars |-> r.sugars, carbs |-> r.carbs,
     fat |-> r.fat, sodium |-> r.sodium, nova |-> r.nova, fvn |-> r.fvn,
     proteins |-> r.proteins]
DerivedRow(r) ==
    [code |-> r.code, ratio |-> r.ratio, calorie_category |-> r.calorie_category,
     sugar_category |-> r.sugar_category, is_ultra_processed |-> r.is_ultra_processed]

Project(rows, F(_)) == [i \in 1..Len(rows) |-> F(rows[i])]

\* DataFrame.drop_duplicates('product_code'): the first row of each code is kept
DropDuplicates(rows) ==
    LET keep == { i \in 1..Len(rows) : \A j \in 1..(i-1) : rows[j].code # rows[i].code }
        at(k) == CHOOSE i \in keep : Cardinality({ j \in keep : j < i }) = k - 1
    IN [k \in 1..Cardinality(keep) |-> rows[at(k)]]

ProductCols == {"product_code", "product_name", "brand"}
NutrientCols ==
    {"product_code", "energy-kcal_value", "energy-kj_value", "carbohydrates_value",
     "sugars_value", "fat_value", "saturated-fat_value", "proteins_value",
     "fiber_value", "salt_value", "sodium_value", "nutrition-score-fr", "nova-group",
     "fruits-vegetables-nuts-estimate-from-ingredients_100g"}
DerivedCols ==
    {"product_code", "sugar_to_carb_ratio", "calorie_category", "sugar_category",
     "is_ultra_processed"}

ProductInfoTable(df) == Table(ProductCols, DropDuplicates(Project(df, ProductRow)))
NutrientInfoTable(df) == Table(NutrientCols, Project(df, NutrientRow))
\* variant: rows without a derived value are dropped (dropna)
DerivedMetricsTableDropna(df) ==
    Table(DerivedCols,
          Project(SelectSeq(df, LAMBDA r : ~(IsNullRatio(r.ratio)
                                              /\ r.calorie_category = "Unknown"
                                              /\ r.sugar_category = "Unknown")),
                  DerivedRow))

DerivedMetricsTable(df) == Table(DerivedCols, Project(df, DerivedRow))

\* variant: the tables are appended to what an earlier build left
BuildStoreAppending(df) ==
    [t \in {"product_info", "nutrient_info", "derived_metrics"} |->
        LET old == IF t \in DOMAIN store THEN store[t].rows ELSE << >>
        IN CASE t = "product_info" ->
                   Table(ProductCols, old \o DropDuplicates(Project(df, ProductRow)))
             [] t = "nutrient_info" -> Table(NutrientCols, old \o Project(df, NutrientRow))
             [] OTHER -> Table(DerivedCols, old \o Project(df, DerivedRow))]

\* the three to_sql calls of create_sqlite_db, if_exists='replace', on the new
\* connection
BuildStore(df) ==
    [t \in {"product_info", "nutrient_info", "derived_metrics"} |->
        CASE t = "product_info" -> ProductInfoTable(df)
          [] t = "nutrient_info" -> NutrientInfoTable(df)
          [] OTHER -> DerivedMetricsTable(df)]

\* database/chococrunch.db: the same three tables under the column names the
\* queries of the first front end use
DbNutrientCols ==
    {"product_code", "energy_kcal", "sugars", "carbohydrates", "fat",
     "fruits_vegetables_nuts"}
DbFile(df) ==
    [t \in {"product_info", "nutrient_info", "derived_metrics"} |->
        CASE t = "product_info" -> Table(ProductCols, Project(df, ProductRow))
          [] t = "nutrient_info" -> Table(DbNutrientCols, Project(df, NutrientRow))
          [] OTHER -> Table(DerivedCols, Project(df, DerivedRow))]

(***************************************************************************)
(* Relational operators, as SQLite evaluates them.                         *)
(***************************************************************************)
Min(a, b) == IF a < b THEN a ELSE b

\* LIMIT k
Limit(rows, k) == SubSeq(rows, 1, Min(k, Len(rows)))

\* ORDER BY: Before(a, b) is the strict order of the sort keys; rows with equal
\* keys keep the order in which the scan produced them
SortedBy(rows, Before(_, _)) ==
    LET n == Len(rows)
        ahead(i) == { j \in 1..n : Before(rows[j], rows[i])
                                    \/ (~Before(rows[i], rows[j]) /\ j < i) }
    IN [k \in 1..n |-> rows[CHOOSE i \in 1..n : Cardinality(ahead(i)) = k - 1]]

RECURSIVE Flatten(_)
Flatten(seqs) == IF seqs = << >> THEN << >> ELSE Head(seqs) \o Flatten(Tail(seqs))

\* a JOIN b ON a.product_code = b.product_code (nested loop, a outside);
\* Pair(x, y) builds the joined row
Join(a, b, Pair(_, _)) ==
    Flatten([i \in 1..Len(a) |->
                LET m == SelectSeq(b, LAMBDA y : y.code = a[i].code)
                IN [j \in 1..Len(m) |-> Pair(a[i], m[j])]])

RECURSIVE Ascending(_)
Ascending(S) ==
    IF S = {} THEN << >>
    ELSE LET m == CHOOSE x \in S : \A y \in S : x <= y
         IN << m >> \o Ascending(S \ {m})

\* GROUP BY an integer key: one entry per key, keys ascending (NULL first)
GroupBy(rows, Key(_)) ==
    LET keys == Ascending({ Key(rows[i]) : i \in 1..Len(rows) })
    IN [g \in 1..Len(keys) |->
          [key |-> keys[g], rows |-> SelectSeq(rows, LAMBDA r : Key(r) = keys[g])]]

\* categories group in the order of their text
CatRank(c) ==
    CASE c \in {"High Calorie", "High Sugar", "No"} -> 1
      [] c \in {"Low Calorie", "Low Sugar", "Yes"} -> 2
      [] c \in {"Moderate Calorie", "Moderate Sugar"} -> 3
      [] OTHER -> 4
CalorieRank(r) == CatRank(r.calorie_category)
CalorieOfRank(k) ==
    CASE k = 1 -> "High Calorie" [] k = 2 -> "Low Calorie"
      [] k = 3 -> "Moderate Calorie" [] OTHER -> "Unknown"

RECURSIVE SumSeq(_)
SumSeq(s) == IF s = << >> THEN 0 ELSE Head(s) + SumSeq(Tail(s))

\* AVG(col) of an integer column, NULLs skipped, as an exact fraction;
\* NULL when no value is left.  unit: value units per reported unit
Avg(rows, V(_), unit) ==
    LET some == SelectSeq(rows, LAMBDA r : V(r) # NULL)
    IN IF some = << >> THEN NullRatio ELSE Frac(SumSeq(Project(some, V)), unit * Len(some))

\* AVG of a ratio column: the defined ratios, summed as exact fractions
RECURSIVE SumRatios(_)
SumRatios(rs) ==
    IF rs = << >> THEN <<0, 1>>
    ELSE LET t == SumRatios(Tail(rs))
             h == Head(rs).ratio
         IN Frac(h[1] * t[2] + t[1] * h[2], h[2] * t[2])

AvgRatio(rows) ==
    LET some == SelectSeq(rows, LAMBDA r : ~IsNullRatio(r.ratio))
        total == SumRatios(some)
    IN IF some = << >> THEN NullRatio ELSE Frac(total[1], total[2] * Len(some))

\* ROUND(x, digits) with scale = 10^digits: half away from zero on x >= 0
Round(r, scale) ==
    IF IsNullRatio(r) THEN NullRatio
    ELSE Frac((2 * r[1] * scale + r[2]) \div (2 * r[2]), scale)

\* x * k
Times(r, k) == IF IsNullRatio(r) THEN NullRatio ELSE Frac(r[1] * k, r[2])

\* ORDER BY <integer column> DESC and ORDER BY <ratio column> DESC; NULL sorts last
RatioDesc(a, b) == ~IsNullRatio(a) /\ (IsNullRatio(b) \/ RatioLess(b, a))

\* product_code LIKE '3%'
RECURSIVE LeadingDigit(_)
LeadingDigit(n) == IF n < 10 THEN n ELSE LeadingDigit(n \div 10)

Codes(rows) == { rows[i].code : i \in 1..Len(rows) }
BrandOf(r) == r.brand
HasBrand(r) == r.brand # NULL
IsHighCalorie(r) == r.calorie_category = "High Calorie"
IsHighSugar(r) == r.sugar_category = "High Sugar"
IsUltra(r) == r.is_ultra_processed = "Yes"

(***************************************************************************)
(* The query catalogue of the second front end (main).  Each operator is   *)
(* the result of one SQL text over the tables of db, as a data frame.      *)
(* Result rows carry the columns that the page or a later check reads;     *)
(* `code` is kept with a row where it tells which product the row is.      *)
(***************************************************************************)
BrandCounts(db) ==
    LET g == GroupBy(SelectSeq(db["product_info"].rows, HasBrand), BrandOf)
    IN SortedBy([i \in 1..Len(g) |->
                    [brand |-> g[i].key, product_count |-> Len(g[i].rows),
                     unique_products |-> Cardinality(Codes(g[i].rows))]],
                LAMBDA a, b : a.product_count > b.product_count)

PI1(db) == Table({"brand", "product_count"}, BrandCounts(db))
PI2(db) ==
    Table({"brand", "unique_products"},
          SortedBy(BrandCounts(db), LAMBDA a, b : a.unique_products > b.unique_products))
PI3(db) == Table({"brand", "product_count"}, Limit(BrandCounts(db), 5))
PI4(db) ==
    Table({"product_code", "brand"},
          SelectSeq(db["product_info"].rows, LAMBDA r : r.name = NULL))
PI5(db) ==
    LET rows == SelectSeq(db["product_info"].rows, HasBrand)
    IN Table({"total_brands"},
             << [total_brands |-> Cardinality({ rows[i].brand : i \in 1..Len(rows) })] >>)
PI6(db) ==
    Table({"product_code", "product_name", "brand"},
          Limit(SelectSeq(db["product_info"].rows, LAMBDA r : LeadingDigit(r.code) = 3), 20))

NI1(db) ==
    Table({"product_code", "energy_kcal_value", "energy_kj_value"},
          Limit(SortedBy(db["nutrient_info"].rows, LAMBDA a, b : a.energy > b.energy), 10))
NI2(db) ==
    LET g == GroupBy(db["nutrient_info"].rows, LAMBDA r : r.nova)
    IN Table({"nova_group", "avg_sugar", "product_count"},
             [i \in 1..Len(g) |->
                [nova_group |-> g[i].key,
                 avg_sugar |-> Round(Avg(g[i].rows, LAMBDA r : r.sugars, 10), 100),
                 product_count |-> Len(g[i].rows)]])
NI3(db) ==
    Table({"high_fat_products"},
          << [high_fat_products |->
                Len(SelectSeq(db["nutrient_info"].rows, LAMBDA r : r.fat > 200))] >>)
NI4(db) ==
    Table({"avg_carbohydrates", "min_carbs", "max_carbs"},
          << [avg_carbohydrates |->
                Round(Avg(db["nutrient_info"].rows, LAMBDA r : r.carbs, 10), 100)] >>)
NI5(db) ==
    Table({"product_code", "sodium_value"},
          SortedBy(SelectSeq(db["nutrient_info"].rows, LAMBDA r : r.sodium > 10),
                   LAMBDA a, b : a.sodium > b.sodium))
NI6(db) ==
    Table({"products_with_fvn"},
          << [products_with_fvn |->
                Len(SelectSeq(db["nutrient_info"].rows, LAMBDA r : r.fvn > 0))] >>)
NI7(db) ==
    LET rows == SelectSeq(db["nutrient_info"].rows, LAMBDA r : r.energy > 500)
    IN Table({"high_energy_products", "avg_energy"},
             << [high_energy_products |-> Len(rows), codes |-> Codes(rows),
                 avg_energy |-> Round(Avg(rows, LAMBDA r : r.energy, 1), 100)] >>)

DM1(db) ==
    LET g == GroupBy(db["derived_metrics"].rows, CalorieRank)
        ord(c) == CASE c = "Low Calorie" -> 1 [] c = "Moderate Calorie" -> 2
                    [] c = "High Calorie" -> 3 [] OTHER -> 0
    IN Table({"calorie_category", "product_count"},
             SortedBy([i \in 1..Len(g) |->
                          [calorie_category |-> CalorieOfRank(g[i].key),
                           product_count |-> Len(g[i].rows)]],
                      LAMBDA a, b : ord(a.calorie_category) < ord(b.calorie_category)))
DM2(db) ==
    Table({"high_sugar_products"},
          << [high_sugar_products |->
                Len(SelectSeq(db["derived_metrics"].rows, IsHighSugar))] >>)
DM3(db) ==
    Table({"avg_ratio"},
          << [avg_ratio |->
                Round(AvgRatio(SelectSeq(db["derived_metrics"].rows, IsHighCalorie)),
                      1000)] >>)
DM4(db) ==
    LET rows == SelectSeq(db["derived_metrics"].rows,
                          LAMBDA r : IsHighCalorie(r) /\ IsHighSugar(r))
    IN Table({"risky_products"}, << [risky_products |-> Len(rows)] >>)
DM5(db) ==
    LET g == GroupBy(db["derived_metrics"].rows, LAMBDA r : CatRank(r.is_ultra_processed))
    IN Table({"is_ultra_processed", "product_count"},
             [i \in 1..Len(g) |->
                [is_ultra_processed |-> IF g[i].key = 2 THEN "Yes" ELSE "No",
                 product_count |-> Len(g[i].rows)]])
DM6(db) ==
    LET rows == SelectSeq(db["derived_metrics"].rows,
                          LAMBDA r : RatioGreaterThan(r.ratio, 7, 10))
    IN Table({"high_ratio_products"},
             << [high_ratio_products |-> Len(rows), codes |-> Codes(rows)] >>)
DM7(db) ==
    LET g == GroupBy(db["derived_metrics"].rows, CalorieRank)
    IN Table({"calorie_category", "avg_ratio"},
             [i \in 1..Len(g) |->
                [calorie_category |-> CalorieOfRank(g[i].key),
                 avg_ratio |-> Round(AvgRatio(g[i].rows), 1000)]])

\* product_info JOIN derived_metrics, product_info JOIN nutrient_info JOIN
\* derived_metrics, nutrient_info JOIN derived_metrics
PairPD(p, d) ==
    [code |-> p.code, name |-> p.name, brand |-> p.brand, ratio |-> d.ratio,
     calorie_category |-> d.calorie_category, sugar_category |-> d.sugar_category,
     is_ultra_processed |-> d.is_ultra_processed]
PairPN(p, n) ==
    [code |-> p.code, name |-> p.name, brand |-> p.brand, energy |-> n.energy,
     sugars |-> n.sugars, carbs |-> n.carbs, fvn |-> n.fvn]
PairPND(x, d) ==
    [code |-> x.code, name |-> x.name, brand |-> x.brand, energy |-> x.energy,
     sugars |-> x.sugars, carbs |-> x.carbs, fvn |-> x.fvn, ratio |-> d.ratio,
     calorie_category |-> d.calorie_category, sugar_category |-> d.sugar_category,
     is_ultra_processed |-> d.is_ultra_processed]
PairND(n, d) ==
    [code |-> n.code, energy |-> n.energy, sugars |-> n.sugars, carbs |-> n.carbs,
     fvn |-> n.fvn, ratio |-> d.ratio, calorie_category |-> d.calorie_category,
     sugar_category |-> d.sugar_category, is_ultra_processed |-> d.is_ultra_processed]
JoinPD(db) == Join(db["product_info"].rows, db["derived_metrics"].rows, PairPD)
JoinPND(db) ==
    Join(Join(db["product_info"].rows, db["nutrient_info"].rows, PairPN),
         db["derived_metrics"].rows, PairPND)
JoinND(db) == Join(db["nutrient_info"].rows, db["derived_metrics"].rows, PairND)

JQ1(db) ==
    LET g == GroupBy(SelectSeq(JoinPD(db), IsHighCalorie), BrandOf)
    IN Table({"brand", "high_calorie_count"},
             Limit(SortedBy([i \in 1..Len(g) |->
                               [brand |-> g[i].key, high_calorie_count |-> Len(g[i].rows)]],
                            LAMBDA a, b : a.high_calorie_count > b.high_calorie_count), 5))
JQ2(db) ==
    LET g == GroupBy(JoinND(db), CalorieRank)
    IN Table({"calorie_category", "avg_energy_kcal", "avg_energy_kj"},
             [i \in 1..Len(g) |->
                [calorie_category |-> CalorieOfRank(g[i].key),
                 avg_energy_kcal |-> Round(Avg(g[i].rows, LAMBDA r : r.energy, 1), 100)]])
JQ3(db) ==
    LET g == GroupBy(SelectSeq(JoinPD(db), IsUltra), BrandOf)
    IN Table({"brand", "ultra_processed_count"},
             Limit(SortedBy([i \in 1..Len(g) |->
                               [brand |-> g[i].key,
                                ultra_processed_count |-> Len(g[i].rows)]],
                            LAMBDA a, b :
                               a.ultra_processed_count > b.ultra_processed_count), 10))
JQ4(db) ==
    Table({"product_name", "brand", "energy-kcal_value", "sugars_value"},
          Limit(SortedBy(SelectSeq(JoinPND(db),
                                   LAMBDA r : IsHighCalorie(r) /\ IsHighSugar(r)),
                         LAMBDA a, b : a.energy > b.energy), 15))
JQ5(db) ==
    LET g == GroupBy(SelectSeq(JoinPND(db), IsUltra), BrandOf)
    IN Table({"brand", "avg_sugar", "ultra_processed_count"},
             Limit(SortedBy([i \in 1..Len(g) |->
                               [brand |-> g[i].key,
                                avg_sugar |->
                                   Round(Avg(g[i].rows, LAMBDA r : r.sugars, 10), 100),
                                ultra_processed_count |-> Len(g[i].rows)]],
                            LAMBDA a, b : RatioDesc(a.avg_sugar, b.avg_sugar)), 10))
JQ6(db) ==
    LET g == GroupBy(JoinND(db), CalorieRank)
    IN Table({"calorie_category", "with_fvn", "total_products"},
             [i \in 1..Len(g) |->
                [calorie_category |-> CalorieOfRank(g[i].key),
                 with_fvn |-> Len(SelectSeq(g[i].rows, LAMBDA r : r.fvn > 0)),
                 total_products |-> Len(g[i].rows)]])
JQ7(db) ==
    Table({"product_name", "brand", "sugar_to_carb_ratio", "calorie_category",
           "sugar_category"},
          Limit(SortedBy(JoinPD(db), LAMBDA a, b : RatioDesc(a.ratio, b.ratio)), 5))

(***************************************************************************)
(* The query catalogue of the first front end (Query 21 .. Query 27).      *)
(***************************************************************************)
PairDP(d, p) == PairPD(p, d)
PairDN(d, n) == PairND(n, d)
PairDPN(x, n) ==
    [code |-> x.code, name |-> x.name, brand |-> x.brand, energy |-> n.energy,
     sugars |-> n.sugars, carbs |-> n.carbs, fvn |-> n.fvn, fat |-> n.fat,
     ratio |-> x.ratio, calorie_category |-> x.calorie_category,
     sugar_category |-> x.sugar_category, is_ultra_processed |-> x.is_ultra_processed]
JoinDP(db) == Join(db["derived_metrics"].rows, db["product_info"].rows, PairDP)
JoinDN(db) == Join(db["derived_metrics"].rows, db["nutrient_info"].rows, PairDN)
JoinDPN(db) == Join(JoinDP(db), db["nutrient_info"].rows, PairDPN)

NamedBrand(r) == r.brand # NULL /\ r.brand # EmptyBrand
KnownCalorie(r) == r.calorie_category # "Unknown"
Percent(part, whole) == Round(Frac(100 * part, whole), 10)

Q21(db) ==
    LET g == GroupBy(SelectSeq(JoinDPN(db), LAMBDA r : IsHighCalorie(r) /\ NamedBrand(r)),
                     BrandOf)
    IN Table({"brand", "high_calorie_count", "avg_calories", "total_products",
              "percentage_high_cal"},
             Limit(SortedBy([i \in 1..Len(g) |->
                               [brand |-> g[i].key,
                                high_calorie_count |-> Len(g[i].rows),
                                avg_calories |->
                                   Round(Avg(g[i].rows, LAMBDA r : r.energy, 1), 10),
                                total_products |-> Cardinality(Codes(g[i].rows)),
                                percentage_high_cal |->
                                   Percent(Len(g[i].rows), Cardinality(Codes(g[i].rows)))]],
                            LAMBDA a, b : a.high_calorie_count > b.high_calorie_count), 5))
Q22(db) ==
    LET g == GroupBy(SelectSeq(JoinDN(db), KnownCalorie), CalorieRank)
    IN Table({"calorie_category", "avg_energy", "min_energy", "max_energy",
              "product_count"},
             SortedBy([i \in 1..Len(g) |->
                          [calorie_category |-> CalorieOfRank(g[i].key),
                           avg_energy |-> Round(Avg(g[i].rows, LAMBDA r : r.energy, 1), 10),
                           product_count |-> Len(g[i].rows)]],
                      LAMBDA a, b : RatioDesc(a.avg_energy, b.avg_energy)))
Q23(db) ==
    LET g == GroupBy(SelectSeq(JoinDP(db), NamedBrand), BrandOf)
        all == [i \in 1..Len(g) |->
                  LET ultra == Len(SelectSeq(g[i].rows, IsUltra))
                  IN [brand |-> g[i].key, ultra_processed_count |-> ultra,
                      total_products |-> Len(g[i].rows),
                      percentage_ultra_processed |-> Percent(ultra, Len(g[i].rows))]]
    IN Table({"brand", "ultra_processed_count", "total_products",
              "percentage_ultra_processed"},
             Limit(SortedBy(SelectSeq(all, LAMBDA r : r.ultra_processed_count > 0),
                            LAMBDA a, b : RatioDesc(a.percentage_ultra_processed,
                                                    b.percentage_ultra_processed)), 15))
Q24(db) ==
    Table({"product_name", "brand", "energy_kcal", "sugars", "fat", "sugar_to_carb_ratio"},
          Limit(SortedBy(SelectSeq(JoinDPN(db),
                                   LAMBDA r : IsHighCalorie(r) /\ IsHighSugar(r)),
                         LAMBDA a, b : a.energy > b.energy
                                       \/ (a.energy = b.energy /\ a.sugars > b.sugars)), 20))
Q25(db) ==
    LET g == GroupBy(SelectSeq(JoinDPN(db), LAMBDA r : IsUltra(r) /\ NamedBrand(r)), BrandOf)
        all == [i \in 1..Len(g) |->
                  [brand |-> g[i].key, ultra_processed_count |-> Len(g[i].rows),
                   avg_sugar |-> Round(Avg(g[i].rows, LAMBDA r : r.sugars, 10), 100)]]
    IN Table({"brand", "ultra_processed_count", "avg_sugar", "min_sugar", "max_sugar",
              "avg_calories"},
             Limit(SortedBy(SelectSeq(all, LAMBDA r : r.ultra_processed_count >= 2),
                            LAMBDA a, b : RatioDesc(a.avg_sugar, b.avg_sugar)), 10))
Q26(db) ==
    LET g == GroupBy(SelectSeq(JoinDN(db), KnownCalorie), CalorieRank)
    IN Table({"calorie_category", "total_products", "products_with_fvn",
              "percentage_with_fvn"},
             SortedBy([i \in 1..Len(g) |->
                          LET with == Len(SelectSeq(g[i].rows, LAMBDA r : r.fvn > 0))
                          IN [calorie_category |-> CalorieOfRank(g[i].key),
                              total_products |-> Len(g[i].rows),
                              products_with_fvn |-> with,
                              percentage_with_fvn |-> Percent(with, Len(g[i].rows))]],
                      LAMBDA a, b : RatioDesc(a.percentage_with_fvn,
                                              b.percentage_with_fvn)))
\* variant: the ratio is capped at 1
Q27Capped(db) ==
    LET top == Limit(SortedBy(SelectSeq(JoinDPN(db), LAMBDA r : ~IsNullRatio(r.ratio)),
                              LAMBDA a, b : RatioDesc(a.ratio, b.ratio)), 5)
        cap(r) == IF RatioGreaterThan(r, 1, 1) THEN <<1, 1>> ELSE r
    IN Table({"product_name", "brand", "sugar_to_carb_ratio", "percentage_sugar",
              "sugars", "carbohydrates", "calorie_category"},
             [i \in 1..Len(top) |->
                [code |-> top[i].code, name |-> top[i].name, brand |-> top[i].brand,
                 ratio |-> Round(cap(top[i].ratio), 1000),
                 percentage_sugar |-> Round(Times(cap(top[i].ratio), 100), 10),
                 sugars |-> top[i].sugars, carbs |-> top[i].carbs,
                 calorie_category |-> top[i].calorie_category]])

Q27(db) ==
    LET top == Limit(SortedBy(SelectSeq(JoinDPN(db), LAMBDA r : ~IsNullRatio(r.ratio)),
                              LAMBDA a, b : RatioDesc(a.ratio, b.ratio)), 5)
    IN Table({"product_name", "brand", "sugar_to_carb_ratio", "percentage_sugar",
              "sugars", "carbohydrates", "calorie_category"},
             [i \in 1..Len(top) |->
                [code |-> top[i].code, name |-> top[i].name, brand |-> top[i].brand,
                 ratio |-> Round(top[i].ratio, 1000),
                 percentage_sugar |-> Round(Times(top[i].ratio, 100), 10),
                 sugars |-> top[i].sugars, carbs |-> top[i].carbs,
                 calorie_category |-> top[i].calorie_category]])

(***************************************************************************)
(* Catalogue: the tabs of each page, the columns each SQL text names, the  *)
(* columns the code after the query indexes.                               *)
(***************************************************************************)
Options1 == {"Q21", "Q22", "Q23", "Q24", "Q25", "Q26", "Q27"}
Pages2 == {"Dashboard", "ProductInfo", "NutrientInfo", "DerivedMetrics", "Join",
           "EDA", "Summary"}
Tabs(p) ==
    CASE p = "ProductInfo" -> <<"PI1", "PI2", "PI3", "PI4", "PI5", "PI6">>
      [] p = "NutrientInfo" -> <<"NI1", "NI2", "NI3", "NI4", "NI5", "NI6", "NI7">>
      [] p = "DerivedMetrics" -> <<"DM1", "DM2", "DM3", "DM4", "DM5", "DM6", "DM7">>
      [] p = "Join" -> <<"JQ1", "JQ2", "JQ3", "JQ4", "JQ5", "JQ6", "JQ7">>
      [] OTHER -> << >>
Queries2 == UNION { { Tabs(p)[i] : i \in 1..Len(Tabs(p)) } : p \in Pages2 }

Cols(t, names) == { <<t, c>> : c \in names }
Refs(q) ==
    LET pi(names) == Cols("product_info", names)
        ni(names) == Cols("nutrient_info", names)
        dm(names) == Cols("derived_metrics", names)
        fvn == "fruits-vegetables-nuts-estimate-from-ingredients_100g"
    IN CASE q \in {"PI1", "PI2", "PI3"} -> pi({"brand", "product_code"})
         [] q \in {"PI4", "PI6"} -> pi({"product_code", "product_name", "brand"})
         [] q = "PI5" -> pi({"brand"})
         [] q = "NI1" -> ni({"product_code", "energy_kcal_value", "energy_kj_value"})
         [] q = "NI2" -> ni({"nova_group", "sugars_value"})
         [] q = "NI3" -> ni({"product_code", "fat_value"})
         [] q = "NI4" -> ni({"carbohydrates_value"})
         [] q = "NI5" -> ni({"product_code", "sodium_value"})
         [] q = "NI6" -> ni({"product_code", fvn})
         [] q = "NI7" -> ni({"product_code", "energy_kcal_value"})
         [] q = "DM1" -> dm({"calorie_category", "product_code"})
         [] q = "DM2" -> dm({"product_code", "sugar_category"})
         [] q \in {"DM3", "DM7"} -> dm({"sugar_to_carb_ratio", "calorie_category"})
         [] q = "DM4" -> dm({"product_code", "calorie_category", "sugar_category"})
         [] q = "DM5" -> dm({"is_ultra_processed", "product_code"})
         [] q = "DM6" -> dm({"product_code", "sugar_to_carb_ratio"})
         [] q = "JQ1" -> pi({"brand", "product_code"})
                         \cup dm({"product_code", "calorie_category"})
         [] q = "JQ2" -> ni({"energy-kcal_value", "energy-kj_value", "product_code"})
                         \cup dm({"product_code", "calorie_category"})
         [] q = "JQ3" -> pi({"brand", "product_code"})
                         \cup dm({"product_code", "is_ultra_processed"})
         [] q = "JQ4" -> pi({"product_name", "brand", "product_code"})
                         \cup ni({"energy-kcal_value", "sugars_value", "product_code"})
                         \cup dm({"product_code", "calorie_category", "sugar_category"})
         [] q = "JQ5" -> pi({"brand", "product_code"})
                         \cup ni({"sugars_value", "product_code"})
                         \cup dm({"product_code", "is_ultra_processed"})
         [] q = "JQ6" -> ni({fvn, "product_code"})
                         \cup dm({"product_code", "calorie_category"})
         [] q = "JQ7" -> pi({"product_name", "brand", "product_code"})
                         \cup dm({"sugar_to_carb_ratio", "calorie_category",
                                  "sugar_category", "product_code"})
         [] q = "Q21" -> dm({"product_code", "calorie_category"})
                         \cup pi({"brand", "product_code"})
                         \cup ni({"energy_kcal", "product_code"})
         [] q = "Q22" -> dm({"product_code", "calorie_category"})
                         \cup ni({"energy_kcal", "product_code"})
         [] q = "Q23" -> dm({"product_code", "is_ultra_processed"})
                         \cup pi({"brand", "product_code"})
         [] q = "Q24" -> dm({"product_code", "calorie_category", "sugar_category",
                             "sugar_to_carb_ratio"})
                         \cup pi({"product_name", "brand", "product_code"})
                         \cup ni({"energy_kcal", "sugars", "fat", "product_code"})
         [] q = "Q25" -> dm({"product_code", "is_ultra_processed"})
                         \cup pi({"brand", "product_code"})
                         \cup ni({"sugars", "energy_kcal", "product_code"})
         [] q = "Q26" -> dm({"product_code", "calorie_category"})
                         \cup ni({"fruits_vegetables_nuts", "product_code"})
         [] OTHER -> dm({"product_code", "sugar_to_carb_ratio", "calorie_category"})
                     \cup pi({"product_name", "brand", "product_code"})
                     \cup ni({"sugars", "carbohydrates", "product_code"})

Eval(q, db) ==
    CASE q = "PI1" -> PI1(db) [] q = "PI2" -> PI2(db) [] q = "PI3" -> PI3(db)
      [] q = "PI4" -> PI4(db) [] q = "PI5" -> PI5(db) [] q = "PI6" -> PI6(db)
      [] q = "NI1" -> NI1(db) [] q = "NI2" -> NI2(db) [] q = "NI3" -> NI3(db)
      [] q = "NI4" -> NI4(db) [] q = "NI5" -> NI5(db) [] q = "NI6" -> NI6(db)
      [] q = "NI7" -> NI7(db)
      [] q = "DM1" -> DM1(db) [] q = "DM2" -> DM2(db) [] q = "DM3" -> DM3(db)
      [] q = "DM4" -> DM4(db) [] q = "DM5" -> DM5(db) [] q = "DM6" -> DM6(db)
      [] q = "DM7" -> DM7(db)
      [] q = "JQ1" -> JQ1(db) [] q = "JQ2" -> JQ2(db) [] q = "JQ3" -> JQ3(db)
      [] q = "JQ4" -> JQ4(db) [] q = "JQ5" -> JQ5(db) [] q = "JQ6" -> JQ6(db)
      [] q = "JQ7" -> JQ7(db)
      [] q = "Q21" -> Q21(db) [] q = "Q22" -> Q22(db) [] q = "Q23" -> Q23(db)
      [] q = "Q24" -> Q24(db) [] q = "Q25" -> Q25(db) [] q = "Q26" -> Q26(db)
      [] OTHER -> Q27(db)

\* the names of q that are no table or column of db ("no such column: ...")
Unresolved(q, db) ==
    { ref \in Refs(q) : ref[1] \notin DOMAIN db \/ ref[2] \notin db[ref[1]].cols }

\* pd.read_sql_query(q, c) in thread t: does it raise?  A sqlite3 connection
\* refuses use from a thread other than the one that opened it, and a closed one
\* refuses any use.
ReadRaises(q, c, db, t) == c.state # "open" \/ c.thread # t \/ Unresolved(q, db) # {}

(***************************************************************************)
(* What the code after a query does with the frame it got.                 *)
(***************************************************************************)
\* columns the page code of the second front end indexes (result['c'], px.bar(x=, y=))
Indexed(q) ==
    CASE q = "PI3" -> {"brand", "product_count"}
      [] q = "PI5" -> {"total_brands"}
      [] q = "NI1" -> {"product_code", "energy_kcal_value"}
      [] q = "NI2" -> {"nova_group", "avg_sugar"}
      [] q = "NI3" -> {"high_fat_products"}
      [] q = "NI6" -> {"products_with_fvn"}
      [] q = "DM1" -> {"calorie_category", "product_count"}
      [] q = "DM2" -> {"high_sugar_products"}
      [] q = "DM3" -> {"avg_ratio"}
      [] q = "DM4" -> {"risky_products"}
      [] q = "DM5" -> {"product_count", "is_ultra_processed"}
      [] q = "DM6" -> {"high_ratio_products"}
      [] q = "DM7" -> {"calorie_category", "avg_ratio"}
      [] q = "JQ1" -> {"brand", "high_calorie_count"}
      [] q = "JQ3" -> {"brand", "ultra_processed_count"}
      [] q = "JQ5" -> {"brand", "avg_sugar", "ultra_processed_count"}
      [] OTHER -> {}

\* tabs that read result[...].values[0] before they display anything
ScalarFirst == {"PI5", "NI3", "NI6", "DM2", "DM3", "DM4", "DM6"}

\* the code of tab q after execute_query raises (KeyError / IndexError on the
\* frame, ValueError from plotly, TypeError formatting None with :.3f)
Render2Raises(q, frame) ==
    \/ ~(Indexed(q) \subseteq frame.cols)
    \/ q \in ScalarFirst /\ frame.rows = << >>
    \/ q = "DM3" /\ IsNullRatio(frame.rows[1].avg_ratio)

\* the tab reaches the display of its result (st.dataframe or the message that
\* stands for an empty result) before anything raises
Render2Shows(q, frame) == q \notin ScalarFirst \/ ~Render2Raises(q, frame)

\* high_ultra = len(q23[q23['percentage_ultra_processed'] > 80]), the value of the
\* metric 'Brands with >80% Ultra-Processed'
HighUltraMetric(frame) ==
    Cardinality({ k \in 1..Len(frame.rows) :
                    RatioGreaterThan(frame.rows[k].percentage_ultra_processed, 80, 1) })

\* len(result) in "{len(result)} risky products identified" (Join Query 4)
RiskyIdentified(frame) == Len(frame.rows)

\* count = result['risky_products'].values[0] (Derived Metrics Query 4)
RiskyCount(frame) == frame.rows[1].risky_products

\* the code of branch q of the first front end, between read_sql_query and
\* st.dataframe: st.metric / an f-string on a whole .values array raise TypeError
\* (Query 21, 25, 27), st.columns(0) raises (Query 22, 26)
Render1Raises(q, frame) ==
    \/ q \in {"Q21", "Q25", "Q27"}
    \/ q \in {"Q22", "Q26"} /\ Len(frame.rows) = 0

(***************************************************************************)
(* Caches.  A cached function runs its body only when its entry is absent. *)
(***************************************************************************)
NoEntry == [hit |-> FALSE, ok |-> FALSE]
\* variant: the function is not cached
NeverCached(entry) == FALSE

Cached(entry) == entry.hit

NoConn == [state |-> "none", thread |-> "none"]
NoOut == [errors |-> 0, failed |-> {}, shown |-> {}, done |-> {}, footer |-> FALSE]
NoFrame == Table({"<none>"}, << >>)

Sources(fe) == IF fe = 1 THEN {"ok", "missing", "empty"} ELSE {"ok", "missing"}

Init ==
    /\ frontend \in {1, 2}
    /\ dataset \in IF frontend = 1 THEN DbDatasets ELSE CsvDatasets
    /\ sourceOk \in Sources(frontend)
    /\ sourceOk = "ok" \/ dataset = CHOOSE d \in SingleRowDatasets : TRUE
    /\ pc = "idle" /\ page = "none" /\ tab = 0 /\ thread = "none"
    /\ dataCache = NoEntry /\ connCache = NoEntry
    /\ conn = NoConn
    /\ store = IF frontend = 1 /\ sourceOk = "ok" THEN DbFile(dataset) ELSE NoStore
    /\ loadCalls = 0 /\ createCalls = 0
    /\ stmts = {}
    /\ lastQ = "none" /\ result = NoFrame
    /\ out = NoOut
    /\ runs = 0

(***************************************************************************)
(* execute_query: the frame of the query, or an error message and an empty *)
(* frame when pd.read_sql_query raises.                                    *)
(***************************************************************************)
\* variant: on an error the frame keeps a placeholder column
execute_query_placeholder(q, c, db, t) ==
    IF ReadRaises(q, c, db, t)
    THEN [raised |-> TRUE, frame |-> NoFrame]
    ELSE [raised |-> FALSE, frame |-> Eval(q, db)]

execute_query(q, c, db, t) ==
    IF ReadRaises(q, c, db, t)
    THEN [raised |-> TRUE, frame |-> EmptyFrame]
    ELSE [raised |-> FALSE, frame |-> Eval(q, db)]

\* variant: one tab rewrites its table
StatementKindWriting(q) == IF q = "PI1" THEN "REPLACE" ELSE "SELECT"

\* every SQL text of both catalogues is a single SELECT
StatementKind(q) == "SELECT"

Issue(kinds) == stmts' = stmts \cup kinds

(***************************************************************************)
(* First front end: the script runs top to bottom on every interaction.    *)
(***************************************************************************)
Start1 ==
    /\ frontend = 1 /\ pc = "idle" /\ runs < MaxRuns
    /\ pc' = "check"
    /\ thread' = "T1"
    /\ UNCHANGED <<frontend, dataset, sourceOk, page, tab, dataCache, connCache, conn,
                   store, loadCalls, createCalls, stmts, lastQ, result, out, runs>>

\* variant: the error is shown but the script goes on
CheckDbGoesOn ==
    /\ pc = "check"
    /\ out' = IF sourceOk = "missing" THEN [out EXCEPT !.errors = @ + 1] ELSE out
    /\ pc' = "connect"
    /\ UNCHANGED <<frontend, dataset, sourceOk, page, tab, thread, dataCache, connCache,
                   conn, store, loadCalls, createCalls, stmts, lastQ, result, runs>>

\* if not os.path.exists(db_path): st.error(...); st.stop()
CheckDb ==
    /\ pc = "check"
    /\ IF sourceOk = "missing"
       THEN /\ out' = [out EXCEPT !.errors = @ + 1]
            /\ pc' = "stopped"
       ELSE /\ out' = out
            /\ pc' = "connect"
    /\ UNCHANGED <<frontend, dataset, sourceOk, page, tab, thread, dataCache, connCache,
                   conn, store, loadCalls, createCalls, stmts, lastQ, result, runs>>

\* conn = sqlite3.connect(db_path); query_option = st.sidebar.radio(...)
Connect ==
    /\ pc = "connect"
    /\ conn' = [state |-> "open", thread |-> thread]
    /\ \E q \in Options1 : page' = q
    /\ pc' = "query"
    /\ UNCHANGED <<frontend, dataset, sourceOk, tab, thread, dataCache, connCache, store,
                   loadCalls, createCalls, stmts, lastQ, result, out, runs>>

\* the selected branch: try: read_sql_query, metrics, table  except: st.error
RunQuery1 ==
    /\ pc = "query"
    /\ LET q == page
           raised == ReadRaises(q, conn, store, thread)
           frame == IF raised THEN NoFrame ELSE Eval(q, store)
       IN /\ lastQ' = q
          /\ result' = frame
          /\ Issue({StatementKind(q)})
          /\ out' = IF raised
                       THEN [out EXCEPT !.errors = @ + 1, !.failed = @ \cup {q}]
                    ELSE IF Render1Raises(q, frame)
                       THEN [out EXCEPT !.errors = @ + 1]
                    ELSE [out EXCEPT !.shown = @ \cup {q}, !.done = @ \cup {q}]
    /\ pc' = "close"
    /\ UNCHANGED <<frontend, dataset, sourceOk, page, tab, thread, dataCache, connCache,
                   conn, store, loadCalls, createCalls, runs>>

\* variant: the connection is closed only after a branch that did not fail
Close1IfNoError ==
    /\ pc = "close"
    /\ conn' = IF out.errors = 0 THEN [conn EXCEPT !.state = "closed"] ELSE conn
    /\ pc' = "footer"
    /\ UNCHANGED <<frontend, dataset, sourceOk, page, tab, thread, dataCache, connCache,
                   store, loadCalls, createCalls, stmts, lastQ, result, out, runs>>

\* conn.close()
Close1 ==
    /\ pc = "close"
    /\ conn' = [conn EXCEPT !.state = "closed"]
    /\ pc' = "footer"
    /\ UNCHANGED <<frontend, dataset, sourceOk, page, tab, thread, dataCache, connCache,
                   store, loadCalls, createCalls, stmts, lastQ, result, out, runs>>

Footer1 ==
    /\ pc = "footer"
    /\ out' = [out EXCEPT !.footer = TRUE]
    /\ pc' = "done"
    /\ UNCHANGED <<frontend, dataset, sourceOk, page, tab, thread, dataCache, connCache,
                   conn, store, loadCalls, createCalls, stmts, lastQ, result, runs>>

(***************************************************************************)
(* Second front end: main() runs on every interaction, in a script thread  *)
(* of the server; the caches outlive the run.                              *)
(***************************************************************************)
Start2 ==
    /\ frontend = 2 /\ pc = "idle" /\ runs < MaxRuns
    /\ \E t \in Threads : thread' = t
    /\ pc' = "load"
    /\ UNCHANGED <<frontend, dataset, sourceOk, page, tab, dataCache, connCache, conn,
                   store, loadCalls, createCalls, stmts, lastQ, result, out, runs>>

\* df = load_data(); if df is None: return
LoadData ==
    /\ pc = "load"
    /\ LET entry == IF Cached(dataCache) THEN dataCache
                    ELSE [hit |-> TRUE, ok |-> sourceOk = "ok"]
       IN /\ dataCache' = entry
          /\ loadCalls' = IF Cached(dataCache) THEN loadCalls ELSE loadCalls + 1
          /\ IF entry.ok
             THEN /\ pc' = "create"
                  /\ out' = out
             ELSE /\ pc' = "stopped"
                  /\ out' = [out EXCEPT !.errors = @ + 1]
    /\ UNCHANGED <<frontend, dataset, sourceOk, page, tab, thread, connCache, conn, store,
                   createCalls, stmts, lastQ, result, runs>>

\* variant: a row without any nutrient value stops the build
ToSqlRaisesOnEmptyRow(df) ==
    \E i \in 1..Len(df) : df[i].energy = NULL /\ df[i].sugars = NULL /\ df[i].carbs = NULL

\* the column selections and to_sql calls of create_sqlite_db, over a frame that
\* read_csv produced: NaN is written as NULL and text as TEXT, so no cell value
\* makes them raise
ToSqlRaises(df) == FALSE

\* conn = create_sqlite_db(df); an exception in the body is not caught, is not
\* cached, and ends the run
CreateDb ==
    /\ pc = "create"
    /\ IF Cached(connCache)
       THEN /\ pc' = "select"
            /\ UNCHANGED <<connCache, conn, store, createCalls, stmts>>
       ELSE IF ToSqlRaises(dataset)
       THEN /\ pc' = "crashed"
            /\ createCalls' = createCalls + 1
            /\ UNCHANGED <<connCache, conn, store, stmts>>
       ELSE /\ connCache' = [hit |-> TRUE, ok |-> TRUE]
            /\ conn' = [state |-> "open", thread |-> thread]
            /\ store' = BuildStore(dataset)
            /\ createCalls' = createCalls + 1
            /\ Issue({"CREATE TABLE", "INSERT"})
            /\ pc' = "select"
    /\ UNCHANGED <<frontend, dataset, sourceOk, page, tab, thread, dataCache, loadCalls,
                   lastQ, result, out, runs>>

\* page = st.radio("Select Section:", ...)
SelectPage ==
    /\ pc = "select"
    /\ \E p \in Pages2 :
          /\ page' = p
          /\ IF Tabs(p) = << >> THEN pc' = "frame" /\ tab' = 0
                                ELSE pc' = "tab" /\ tab' = 1
    /\ UNCHANGED <<frontend, dataset, sourceOk, thread, dataCache, connCache, conn, store,
                   loadCalls, createCalls, stmts, lastQ, result, out, runs>>

\* df['proteins_value'].mean() over a column that holds a text raises TypeError
\* (Dashboard Overview, EDA Visualizations); Data Summary only counts and describes
FramePageRaises(p, df) ==
    p \in {"Dashboard", "EDA"} /\ \E i \in 1..Len(df) : df[i].proteins = Malformed

\* Dashboard Overview, EDA Visualizations, Data Summary: computed from df alone
RenderFramePage ==
    /\ pc = "frame"
    /\ IF FramePageRaises(page, dataset)
       THEN out' = out /\ pc' = "crashed"
       ELSE out' = [out EXCEPT !.done = @ \cup {page}] /\ pc' = "done"
    /\ UNCHANGED <<frontend, dataset, sourceOk, page, tab, thread, dataCache, connCache,
                   conn, store, loadCalls, createCalls, stmts, lastQ, result, runs>>

\* one `with query_tabs[i]:` block: execute_query, then the code that shows the
\* frame; an exception there is not caught and ends the run
RenderTab ==
    /\ pc = "tab"
    /\ LET q == Tabs(page)[tab]
           r == execute_query(q, conn, store, thread)
           crash == Render2Raises(q, r.frame)
           shows == Render2Shows(q, r.frame)
       IN /\ lastQ' = q
          /\ result' = r.frame
          /\ Issue({StatementKind(q)})
          /\ out' = [out EXCEPT
                       !.errors = IF r.raised THEN @ + 1 ELSE @,
                       !.failed = IF r.raised THEN @ \cup {q} ELSE @,
                       !.shown = IF shows THEN @ \cup {q} ELSE @,
                       !.done = IF crash THEN @ ELSE @ \cup {q}]
          /\ IF crash THEN pc' = "crashed" /\ tab' = tab
             ELSE IF tab = Len(Tabs(page)) THEN pc' = "done" /\ tab' = tab
             ELSE pc' = "tab" /\ tab' = tab + 1
    /\ UNCHANGED <<frontend, dataset, sourceOk, page, thread, dataCache, connCache, conn,
                   store, loadCalls, createCalls, runs>>

\* the run is over; the next interaction starts another one
EndRun ==
    /\ pc \in {"done", "stopped", "crashed"}
    /\ pc' = "idle" /\ page' = "none" /\ tab' = 0 /\ thread' = "none"
    /\ lastQ' = "none" /\ result' = NoFrame /\ out' = NoOut
    /\ runs' = runs + 1
    /\ UNCHANGED <<frontend, dataset, sourceOk, dataCache, connCache, conn, store,
                   loadCalls, createCalls, stmts>>

Next ==
    \/ Start1 \/ CheckDb \/ Connect \/ RunQuery1 \/ Close1 \/ Footer1
    \/ Start2 \/ LoadData \/ CreateDb \/ SelectPage \/ RenderFramePage \/ RenderTab
    \/ EndRun

Spec == Init /\ [][Next]_vars

(***************************************************************************)
(* The second front end with its caches cleared between runs ("Clear       *)
(* cache" of the app menu, or a restart of the server): the next run       *)
(* executes the bodies of load_data and create_sqlite_db again, on a new   *)
(* in-memory database.  Until then `store` still shows the tables of the   *)
(* previous build.                                                         *)
(***************************************************************************)
ClearCache ==
    /\ frontend = 2 /\ pc = "idle" /\ runs < MaxRuns
    /\ connCache.hit
    /\ dataCache' = NoEntry /\ connCache' = NoEntry
    /\ UNCHANGED <<frontend, dataset, sourceOk, pc, page, tab, thread, conn, store,
                   loadCalls, createCalls, stmts, lastQ, result, out, runs>>

InitRebuild == Init /\ frontend = 2

NextRebuild ==
    \/ Start2 \/ LoadData \/ CreateDb \/ SelectPage \/ RenderFramePage \/ RenderTab
    \/ EndRun \/ ClearCache

SpecRebuild == InitRebuild /\ [][NextRebuild]_vars

(***************************************************************************)
(* Properties.                                                             *)
(***************************************************************************)
Built == frontend = 1 \/ connCache.hit
DerivedRows == IF "derived_metrics" \in DOMAIN store
               THEN store["derived_metrics"].rows ELSE << >>
NutrientRows == IF "nutrient_info" \in DOMAIN store
                THEN store["nutrient_info"].rows ELSE << >>
\* the records the queries consume: row i of derived_metrics with row i of
\* nutrient_info (both tables hold the records in input order)
Consumed ==
    { <<DerivedRows[i], NutrientRows[i]>> :
        i \in 1..Min(Len(DerivedRows), Len(NutrientRows)) }
Ran(q) == lastQ = q /\ q \notin out.failed
AboveOne(r) == RatioGreaterThan(r, 1, 1)

\* C1: whenever the execution of a catalogue query raised, the run has shown an
\* error message and goes on to its end: no exception leaves the page code.
C1_QueryErrorsSurfaced ==
    out.failed # {} => out.errors >= 1 /\ pc # "crashed"

\* C2: every query of the second front end's catalogue names only tables and
\* columns that create_sqlite_db created, and executes in the run that built them.
C2_CatalogueExecutes ==
    (frontend = 2 /\ connCache.hit) =>
        /\ \A q \in Queries2 : Unresolved(q, store) = {}
        /\ conn.thread = thread => out.failed = {}

\* C3: no row returned by a ratio-ordered top-5 query (Query 27, Join Query 7)
\* has a NULL sugar_to_carb_ratio, and on an intact source neither query raises.
C3_NoNullRatioReturned ==
    lastQ \in {"Q27", "JQ7"} =>
        /\ \A i \in 1..Len(result.rows) : ~IsNullRatio(result.rows[i].ratio)
        /\ (sourceOk = "ok" /\ conn.thread = thread) => lastQ \notin out.failed

\* C4: once the tables are loaded or built, no step changes their contents and
\* every statement issued on the connection is a SELECT.
C4_ReadOnlyAfterBuild ==
    [][Built => store' = store /\ (stmts' \ stmts) \subseteq {"SELECT"}]_vars
C4_Witness ==
    frontend = 2 /\ runs >= 1 /\ connCache.hit /\ lastQ \in Queries2
    /\ "SELECT" \in stmts

\* C5: over any sequence of reruns and page selections the bodies of load_data and
\* create_sqlite_db run at most once each, and no page or query step rebuilds the
\* tables.
C5_BuiltOnce ==
    [][/\ loadCalls' <= 1 /\ createCalls' <= 1
       /\ pc \in {"select", "tab", "frame"} =>
             UNCHANGED <<store, loadCalls, createCalls>>]_vars
C5_Witness ==
    frontend = 2 /\ runs >= 1 /\ pc = "done" /\ lastQ \in Queries2
    /\ loadCalls = 1 /\ createCalls = 1

\* C6: calorie_category of every consumed record is the step function of its
\* energy_kcal: missing -> Unknown, < 300 Low, 300 .. < 500 Moderate, >= 500 High;
\* the tier never decreases as energy_kcal increases.
CalorieTier(c) ==
    CASE c = "Low Calorie" -> 1 [] c = "Moderate Calorie" -> 2
      [] c = "High Calorie" -> 3 [] OTHER -> 0
C6_CalorieCategoryStep ==
    /\ \A x \in Consumed :
          LET c == x[1].calorie_category  e == x[2].energy
          IN /\ e = NULL => c = "Unknown"
             /\ (e # NULL /\ e < 300) => c = "Low Calorie"
             /\ (e # NULL /\ 300 <= e /\ e < 500) => c = "Moderate Calorie"
             /\ (e # NULL /\ e >= 500) => c = "High Calorie"
    /\ \A x, y \in Consumed :
          (x[2].energy # NULL /\ y[2].energy # NULL /\ x[2].energy <= y[2].energy)
             => CalorieTier(x[1].calorie_category) <= CalorieTier(y[1].calorie_category)
C6_Witness ==
    /\ Ran("DM1")
    /\ \E x \in Consumed : x[2].energy = 300 /\ x[1].calorie_category = "Moderate Calorie"

\* C7: sugar_category of every consumed record is the step function of its sugars:
\* missing -> Unknown, < 5 g Low, 5 .. < 22.5 g Moderate, >= 22.5 g High.
C7_SugarCategoryStep ==
    \A x \in Consumed :
        LET c == x[1].sugar_category  g == x[2].sugars
        IN /\ g = NULL => c = "Unknown"
           /\ (g # NULL /\ g < 50) => c = "Low Sugar"
           /\ (g # NULL /\ 50 <= g /\ g < 225) => c = "Moderate Sugar"
           /\ (g # NULL /\ g >= 225) => c = "High Sugar"
C7_Witness ==
    /\ Ran("DM2")
    /\ \E x \in Consumed : x[2].sugars = 225 /\ x[1].sugar_category = "High Sugar"

\* C8: is_ultra_processed of every consumed record is Yes exactly when its
\* nova_group is 4; any other value and a missing one give No.
C8_UltraProcessedIffNova4 ==
    \A x \in Consumed :
        /\ x[1].is_ultra_processed \in {"Yes", "No"}
        /\ x[1].is_ultra_processed = "Yes" <=> x[2].nova = 4
C8_Witness ==
    /\ Ran("DM5")
    /\ \E x \in Consumed : x[2].nova = NULL /\ x[1].is_ultra_processed = "No"

\* C9: with carbohydrates present and > 0 the ratio is sugars / carbohydrates
\* (missing sugars counted as 0); otherwise it is undefined, never 0.
C9_RatioDefinition ==
    \A x \in Consumed :
        LET r == x[1].ratio
            carbs == x[2].carbs
            sugars == IF x[2].sugars = NULL THEN 0 ELSE x[2].sugars
        IN IF carbs # NULL /\ carbs > 0
           THEN ~IsNullRatio(r) /\ r[1] * carbs = sugars * r[2]
           ELSE IsNullRatio(r) /\ r # <<0, 1>>
C9_Witness ==
    /\ Ran("JQ7")
    /\ \E x \in Consumed : x[2].carbs = 0 /\ IsNullRatio(x[1].ratio)

\* C10: a ratio above 1 is kept as it is: the "> 0.7" count includes the product,
\* and a product that no five others equal or exceed is returned by the top-5
\* queries, by Join Query 7 with the stored ratio and by Query 27 with that ratio
\* rounded to three places, still above 1 and with percentage_sugar above 100.
SureTop5(i) ==
    Cardinality({ j \in 1..Len(DerivedRows) :
                    j # i /\ ~RatioLess(DerivedRows[j].ratio, DerivedRows[i].ratio)
                          /\ ~IsNullRatio(DerivedRows[j].ratio) }) < 5
Built2 == frontend = 2 /\ connCache.hit
TableRows(t) == IF t \in DOMAIN store THEN store[t].rows ELSE << >>
TableNames == {"product_info", "nutrient_info", "derived_metrics"}
AllMissing(r) ==
    /\ r.energy = NULL /\ r.sugars = NULL /\ r.carbs = NULL /\ r.fat = NULL
    /\ r.sodium = NULL /\ r.nova = NULL /\ r.fvn = NULL

\* C11: once the second front end has built its tables, derived_metrics holds one
\* entry per input record, in input order, a record without any nutrient value
\* included: none is dropped.
C11_EveryRecordKept ==
    Built2 =>
        /\ Len(DerivedRows) = Len(dataset)
        /\ \A i \in 1..Len(dataset) :
              /\ DerivedRows[i].code = dataset[i].code
              /\ DerivedRows[i].calorie_category = dataset[i].calorie_category
              /\ DerivedRows[i].ratio = dataset[i].ratio
C11_Witness ==
    /\ Built2 /\ Len(dataset) >= 2
    /\ \E i \in 1..Len(dataset) :
          /\ AllMissing(dataset[i])
          /\ DerivedRows[i].code = dataset[i].code
          /\ DerivedRows[i].calorie_category = "Unknown"

\* C12: once the tables are built, each product_code occurs in exactly one row of
\* product_info, of nutrient_info and of derived_metrics, also when it occurs in
\* several input rows, so product_info JOIN derived_metrics has at most one row per
\* product.
C12_UniqueKeyEveryTable ==
    Built2 =>
        /\ \A t \in TableNames :
              \A c \in Codes(dataset) :
                 Cardinality({ i \in 1..Len(TableRows(t)) : TableRows(t)[i].code = c }) = 1
        /\ \A c \in Codes(dataset) :
              Cardinality({ i \in 1..Len(JoinPD(store)) : JoinPD(store)[i].code = c }) <= 1

\* C13: when a product_code occurs in several input rows, every table keeps for it
\* the values of the last such row in input order.
LastRowOf(c) == CHOOSE i \in 1..Len(dataset) :
                   dataset[i].code = c /\ \A j \in (i+1)..Len(dataset) : dataset[j].code # c
C13_LastWriteWins ==
    Built2 =>
        \A c \in Codes(dataset) :
           LET last == dataset[LastRowOf(c)]
           IN /\ \A i \in 1..Len(TableRows("product_info")) :
                    TableRows("product_info")[i].code = c =>
                       /\ TableRows("product_info")[i].name = last.name
                       /\ TableRows("product_info")[i].brand = last.brand
              /\ \A i \in 1..Len(NutrientRows) :
                    NutrientRows[i].code = c =>
                       /\ NutrientRows[i].energy = last.energy
                       /\ NutrientRows[i].sugars = last.sugars
              /\ \A i \in 1..Len(DerivedRows) :
                    DerivedRows[i].code = c =>
                       /\ DerivedRows[i].ratio = last.ratio
                       /\ DerivedRows[i].calorie_category = last.calorie_category

\* C14: the products that 'Products with Energy > 500 kcal' (Nutrient Info Query 7)
\* selects are exactly the products of category High Calorie, one with energy_kcal
\* exactly 500 included, and the tab's query executes in the run that built the
\* tables.
HighCalorieCodes ==
    { DerivedRows[i].code : i \in { j \in 1..Len(DerivedRows) :
                                      DerivedRows[j].calorie_category = "High Calorie" } }
C14_EnergyThresholdAgrees ==
    Built2 =>
        /\ NI7(store).rows[1].codes = HighCalorieCodes
        /\ (lastQ = "NI7" /\ conn.thread = thread) =>
              /\ "NI7" \notin out.failed
              /\ result.rows[1].codes = HighCalorieCodes

MalformedRows == { i \in 1..Len(dataset) : dataset[i].proteins = Malformed }
C17_MalformedReported ==
    (frontend = 2 /\ sourceOk = "ok" /\ MalformedRows # {} /\ pc = "select") =>
        /\ connCache.hit
        /\ \A i \in 1..Len(dataset) :
              i <= Len(DerivedRows) /\ DerivedRows[i].code = dataset[i].code
        /\ out.errors >= Cardinality(MalformedRows)

\* C18: every call of execute_query returns: with the query's frame and no
\* message when the read succeeds, with one 'Query Error' message and the frame
\* without rows and columns when it raises (connection of another thread, unknown
\* column); the exception never leaves the function.
C18_ExecuteQueryNeverRaises ==
    [][pc = "tab" =>
          LET q == Tabs(page)[tab]
              bad == conn.state # "open" \/ conn.thread # thread
                     \/ \E ref \in Refs(q) : ref[2] \notin store[ref[1]].cols
          IN /\ lastQ' = q
             /\ IF bad
                THEN /\ result' = [cols |-> {}, rows |-> << >>]
                     /\ out'.errors = out.errors + 1
                     /\ q \in out'.failed
                ELSE /\ result' = Eval(q, store)
                     /\ result'.cols # {}
                     /\ out'.errors = out.errors
                     /\ q \notin out'.failed]_vars
C18_Witness ==
    /\ frontend = 2 /\ lastQ = "PI1" /\ "PI1" \in out.failed /\ conn.thread # thread
    /\ result = [cols |-> {}, rows |-> << >>] /\ out.errors = 1 /\ pc = "tab"

\* C19: a run of the first front end that passes the existence check opens the
\* connection, issues the one selected query on it, and closes it, also when the
\* branch failed; nothing is issued after the close and the run ends with the
\* connection closed.
C19_OpenQueryClose ==
    [][frontend = 1 =>
          /\ stmts' # stmts \/ (lastQ' # lastQ /\ lastQ' # "none") =>
                /\ pc = "query" /\ pc' = "close"
                /\ conn.state = "open" /\ conn'.state = "open"
                /\ lastQ = "none" /\ lastQ' = page /\ page \in Options1
          /\ pc' = "close" => pc = "query"
          /\ pc = "close" => conn'.state = "closed" /\ pc' = "footer"
          /\ pc' \in {"footer", "done"} => conn'.state = "closed" /\ lastQ' = page
          /\ (pc = "connect" /\ pc' = "query") => conn'.state = "open" /\ lastQ' = "none"]_vars
C19_Witness ==
    /\ frontend = 1 /\ pc = "done" /\ conn.state = "closed" /\ lastQ = "Q21"
    /\ out.errors = 1 /\ out.footer /\ sourceOk = "ok"

\* C20: with the data source unavailable the run shows an error and stops: no
\* connection is opened, nothing is built, no statement is issued, no page or
\* query is rendered.
C20_NoWorkWithoutSource ==
    sourceOk = "missing" =>
        /\ conn = NoConn /\ stmts = {} /\ createCalls = 0 /\ ~connCache.hit
        /\ page = "none" /\ lastQ = "none"
        /\ out.shown = {} /\ out.done = {} /\ ~out.footer
        /\ pc \in {"idle", "check", "load", "stopped"}
        /\ pc = "stopped" => out.errors = 1
C20_Witness ==
    /\ sourceOk = "missing" /\ frontend = 2 /\ pc = "stopped" /\ runs = 1
    /\ loadCalls = 1 /\ out.errors = 1 /\ conn = NoConn

\* C21: in the first front end a run shows 'Error executing query' only when the
\* read of the selected query raised; when the read succeeded, whatever the number
\* of rows, the results table is shown and no such message appears.
C21_ErrorOnlyIfQueryRaised ==
    (frontend = 1 /\ lastQ \in Options1) =>
        /\ out.errors >= 1 => lastQ \in out.failed
        /\ lastQ \notin out.failed => lastQ \in out.shown

\* C22: a query of the second front end that names only existing columns succeeds
\* on the cached connection in every run, with the result the tables give, also
\* in a run whose thread is not the one that created the connection.
C22_CachedConnectionUsable ==
    (Built2 /\ lastQ \in Queries2 /\ Unresolved(lastQ, store) = {}) =>
        /\ lastQ \notin out.failed
        /\ result = Eval(lastQ, store)

\* C23: for every brand that Query 21 returns, total_products is the number of
\* distinct products of the brand over all calorie categories, percentage_high_cal
\* is 100 * high_calorie_count / total_products, and it is below 100 for a brand
\* with a product that is not High Calorie.
ProductsOfBrand(b) ==
    { TableRows("product_info")[i].code :
        i \in { j \in 1..Len(TableRows("product_info")) :
                  TableRows("product_info")[j].brand = b } }
C23_TotalProductsOverAllCategories ==
    (frontend = 1 /\ lastQ = "Q21" /\ "Q21" \notin out.failed) =>
        \A k \in 1..Len(result.rows) :
           LET row == result.rows[k]
               all == ProductsOfBrand(row.brand)
           IN /\ row.total_products = Cardinality(all)
              /\ row.percentage_high_cal =
                    Round(Frac(100 * row.high_calorie_count, Cardinality(all)), 10)
              /\ (all \ HighCalorieCodes # {}) =>
                    ~RatioGreaterThan(row.percentage_high_cal, 99, 1)

\* C24: the metric 'Brands with >80% Ultra-Processed' of Query 23 is the number of
\* named brands whose share of ultra-processed products is above 80 percent, also
\* when more than 15 brands are above it.
UltraCodes ==
    { DerivedRows[i].code : i \in { j \in 1..Len(DerivedRows) :
                                      DerivedRows[j].is_ultra_processed = "Yes" } }
NamedBrands ==
    { TableRows("product_info")[i].brand : i \in 1..Len(TableRows("product_info")) }
        \ {NULL, EmptyBrand}
BrandsAbove80 ==
    { b \in NamedBrands :
        100 * Cardinality(ProductsOfBrand(b) \cap UltraCodes)
            > 80 * Cardinality(ProductsOfBrand(b)) }
C24_HighUltraMetricCountsAllBrands ==
    (frontend = 1 /\ lastQ = "Q23" /\ "Q23" \notin out.failed) =>
        HighUltraMetric(result) = Cardinality(BrandsAbove80)

\* C25: the number of 'risky products identified' of Join Query 4 equals the
\* risky_products count of Derived Metrics Query 4 over the same tables, however
\* many products are both High Calorie and High Sugar.
C25_RiskyCountsAgree ==
    (Built2 /\ lastQ = "JQ4" /\ "JQ4" \notin out.failed) =>
        RiskyIdentified(result) = RiskyCount(DM4(store))

====
